---- MODULE Spec2Model ----
(***************************************************************************)
(* The live voice conversation component (LiveChat, src/unnamed/part_001) *)
(* as a state machine.  React state and refs are variables, every handler  *)
(* is an action, and every `await` is a suspension point: a continuation   *)
(* is parked either on the session promise (reactions), on the microtask   *)
(* queue (mq), or on an operation of the platform that settles in a later  *)
(* task (getUserMedia, AudioContext.close, decodeAudioData).               *)
(* Tasks (clicks, transport callbacks, platform completions) run only      *)
(* when the microtask queue is empty, as in the JavaScript event loop.     *)
(***************************************************************************)
EXTENDS Integers, Sequences, FiniteSets, TLC

\* ---------------------------------------------------------------- bounds
\* start() calls explored (each creates one output context and one session)
MaxStarts == 3
\* inbound transport messages explored
MaxMsgs == 2
\* ticks of an output context's currentTime explored
MaxTime == 2

\* buffers the capture processors deliver
MaxFrames == 2
\* messages sent in each chat, and chunks of a streamed response
MaxSends == 2
MaxChunks == 2
\* edits and actions in the code editor
MaxEdits == 3

Starts == 1..MaxStarts
\* null for a ref that holds an object created by the n-th start()
Null == 0

\* durations of decoded segments (audioBuffer.duration), in ticks
Durations == {1, 2}
\* transcript deltas; text is a sequence of characters, '' is << >>
Deltas == {<< >>, <<"a">>, <<"b">>}

Max(a, b) == IF a >= b THEN a ELSE b

VARIABLES
    \* React state (part_001:12-16)
    status, conversation, currentInput, currentOutput, error,
    \* refs (part_001:18-29)
    sessionPromiseRef, streamRef, inputAudioContextRef, outputAudioContextRef,
    scriptProcessorRef, sourceNodeRef, currentInputRef, currentOutputRef,
    nextStartTimeRef, audioSourcesRef,
    \* the platform: transports, audio contexts, media streams, source nodes
    session, outCtx, inCtx, stream, graph, now, nodes,
    \* suspended continuations
    mq, reactions, micPending, closeWait, decoding,
    \* whether the component is mounted
    mounted,
    \* observation only: counters, the last step and what it did
    starts, msgs, did, lastEnd, lastReset, rxIn, rxOut, turnExp,
    \* observation of capture: buffers delivered so far, the frames handed
    \* to a transport's send operation, in order (f: the frame, s: the
    \* session, on: the state of its transport at the send, early: produced
    \* before the transport had opened), and the number of start()
    \* calls that preceded the call of a stopConversation that has returned
    frames, sent, stoppedUpTo,
    \* the text chats: the state of the Chat of components/Chat.tsx and of
    \* the Chat of part_002, and the default chat mode of the settings
    flatChat, convChat, defaultChatMode,
    \* the state of the CodeEditor of part_000
    codeEditor

uiVars == <<status, conversation, currentInput, currentOutput, error>>
refVars == <<sessionPromiseRef, streamRef, inputAudioContextRef,
             outputAudioContextRef, scriptProcessorRef, sourceNodeRef,
             currentInputRef, currentOutputRef, nextStartTimeRef,
             audioSourcesRef>>
envVars == <<session, outCtx, inCtx, stream, graph, now, nodes>>
asyncVars == <<mq, reactions, micPending, closeWait, decoding>>
capVars == <<frames, sent, stoppedUpTo>>
obsVars == <<starts, msgs, did, lastEnd, lastReset, rxIn, rxOut, turnExp,
             capVars>>
\* the live conversation, and the other components
liveVars == <<uiVars, refVars, envVars, asyncVars, mounted, obsVars>>
appVars == <<flatChat, convChat, defaultChatMode, codeEditor>>
vars == <<liveVars, appVars>>

\* the session promise of start n: pending or rejected; otherwise resolved
Pending(s) == session[s] \in {"connecting", "connFailed"}
Rejected(s) == session[s] = "rejected"

\* ------------------------------------------------------------ observation
\* what the last step did, for the properties; no action reads it.
\*   call: stopConversation was called; stop, by: a stopConversation
\*     returned or threw, and who had called it
\*   began: startConversation ran, and how its try block ended
\*   sched: a segment was scheduled, at real time t to start at start, the
\*     segment before it ending at prevEnd (-1: none since the clock was
\*     reset, reset saying by what)
\*   late: a decode ended that a stop() had overtaken
\*   intrMsg, turnMsg: the handler of a message carrying the interrupted, the
\*     turnComplete flag ended; intr, turn: it had handled the flag
Nothing ==
    [call |-> FALSE, stop |-> "none", by |-> "none", began |-> "none",
     sched |-> FALSE, start |-> -1, t |-> -1, prevEnd |-> -1, reset |-> "none",
     late |-> FALSE, intrMsg |-> FALSE, intr |-> FALSE,
     turnMsg |-> FALSE, turn |-> FALSE]

\* ----------------------------------- the other components, as constructed
\* The text chat exists in two versions: components/Chat.tsx keeps one flat
\* message list (flatChat), the Chat of part_002 keeps a list of
\* conversations (convChat).  A text is a sequence of pieces, '' is << >>.
Greeting == [role |-> "model", text |-> <<"hello">>]

\* what the last step of a chat did, for the properties: a send that failed
\* records the messages shown before the send, the conversation and whether
\* the send had created it; a toggle records the flags that were on before
NoChatStep == [op |-> "none", before |-> << >>, id |-> 0, isNew |-> FALSE, prev |-> {}]

\* no send is awaiting its response; a send that is records the branch
\* taken, the conversation, whether the send created it, the chunks
\* received and, for the properties, the messages shown before the send
NoCall == [mode |-> "none", id |-> 0, isNew |-> FALSE, before |-> << >>, chunks |-> 0]

\* components/Chat.tsx, lines 10-20
FlatChatInit ==
    [chat |-> TRUE, messages |-> <<Greeting>>, input |-> << >>,
     isLoading |-> FALSE, error |-> "null",
     useSearch |-> FALSE, useThinkingMode |-> FALSE, useFastMode |-> FALSE,
     call |-> NoCall, sends |-> 0, did |-> NoChatStep]

\* part_002, lines 148-160; the mode flags are set when the component mounts
ConvChatInit ==
    [mounted |-> FALSE, chat |-> TRUE, conversations |-> << >>,
     activeConversationId |-> Null, input |-> << >>,
     isLoading |-> FALSE, error |-> "null",
     useSearch |-> FALSE, useThinkingMode |-> FALSE, useFastMode |-> FALSE,
     call |-> NoCall, sends |-> 0, did |-> NoChatStep]

\* what the last step of the code editor did: an action that replaced the
\* content records the content held when the action was invoked
NoEditorStep == [op |-> "none", held |-> ""]

\* no timeout is pending (historyTimeoutRef); one that is closes over the
\* new code, the history and the index
NoTimeout == [set |-> FALSE, newCode |-> "", history |-> << >>, historyIndex |-> 0]

\* no action is awaiting its response; one that is closes over the code,
\* the history and the index
NoAction == [action |-> "none", code |-> "", history |-> << >>, historyIndex |-> 0]

\* part_000, lines 330-347
CodeEditorInit ==
    [code |-> "", output |-> "", error |-> "null", isLoading |-> FALSE,
     history |-> <<"">>, historyIndex |-> 0, historyTimeoutRef |-> NoTimeout,
     call |-> NoAction, edits |-> 0, did |-> NoEditorStep]

Init ==
    /\ status = "idle"
    /\ conversation = << >>
    /\ currentInput = << >>
    /\ currentOutput = << >>
    /\ error = "null"
    /\ sessionPromiseRef = Null
    /\ streamRef = Null
    /\ inputAudioContextRef = Null
    /\ outputAudioContextRef = Null
    /\ scriptProcessorRef = Null
    /\ sourceNodeRef = Null
    /\ currentInputRef = << >>
    /\ currentOutputRef = << >>
    /\ nextStartTimeRef = 0
    /\ audioSourcesRef = {}
    /\ session = [s \in Starts |-> "none"]
    /\ outCtx = [s \in Starts |-> "none"]
    /\ inCtx = [s \in Starts |-> "none"]
    /\ stream = [s \in Starts |-> "none"]
    /\ graph = [s \in Starts |-> "none"]
    /\ now = [s \in Starts |-> 0]
    /\ nodes = {}
    /\ mq = << >>
    /\ reactions = [s \in Starts |-> << >>]
    /\ micPending = {}
    /\ closeWait = {}
    /\ decoding = {}
    /\ mounted = TRUE
    /\ starts = 0
    /\ msgs = 0
    /\ did = Nothing
    /\ lastEnd = -1
    /\ lastReset = "none"
    /\ rxIn = << >>
    /\ rxOut = << >>
    /\ turnExp = [in |-> << >>, out |-> << >>]
    /\ frames = 0
    /\ sent = << >>
    /\ stoppedUpTo = 0
    /\ flatChat = FlatChatInit
    /\ convChat = ConvChatInit
    /\ defaultChatMode = "standard"
    /\ codeEditor = CodeEditorInit

\* ------------------------------------------------------------- the platform
\* AudioBufferSourceNode.stop() on every node of `ids`: a node that is still
\* playing on a running context stops and its 'ended' event is queued; on a
\* closed context nothing renders any more and no event follows
StoppedNodes(nds, ids) ==
    {IF n.id \in ids /\ n.st = "playing" THEN [n EXCEPT !.st = "stopped"] ELSE n :
        n \in {m \in nds :
                 ~(m.id \in ids /\ m.st = "playing" /\ outCtx[m.ctx] # "running")}}

\* AudioContext.close() of output context c: currentTime freezes, so a node
\* that has not reached its end by now never ends
ClosedNodes(c) ==
    {n \in nodes : ~(n.ctx = c /\ n.st = "playing" /\ n.end > now[c])}

\* session.close() (line 40): an open transport starts closing
Closed(st) == IF st = "open" THEN "closing" ELSE st

\* the clock was reset by a stop; an interruption before it stays on record
AfterStop(r) == IF r = "intr" THEN "intr" ELSE "stop"

\* --------------------------------------------------------- stopConversation
\* In the three parts below, cw is the set of closes other calls still
\* await, by the caller, n the number of start() calls that preceded the
\* call, d0 what the step has done so far.

\* lines 66-68: stop and forget every source, reset the playback clock;
\* stopConversation returns here
StopFrom66(cw, by, n, d0) ==
    /\ nodes' = StoppedNodes(nodes, audioSourcesRef)
    /\ audioSourcesRef' = {}
    /\ nextStartTimeRef' = 0
    /\ lastReset' = AfterStop(lastReset)
    /\ stoppedUpTo' = Max(stoppedUpTo, n)
    /\ lastEnd' = -1
    /\ closeWait' = cw
    /\ did' = [d0 EXCEPT !.stop = "returned", !.by = by]

\* lines 62-64: close the output context the ref holds now, unless closed
StopFrom62(cw, by, n, d0) ==
    IF outputAudioContextRef # Null /\ outCtx[outputAudioContextRef] # "closed"
    THEN /\ outCtx' = [outCtx EXCEPT ![outputAudioContextRef] = "closed"]
         /\ nodes' = ClosedNodes(outputAudioContextRef)
         /\ closeWait' = cw \cup {[pc |-> "out", ctx |-> outputAudioContextRef, by |-> by, n |-> n]}
         /\ did' = d0
         /\ UNCHANGED <<audioSourcesRef, nextStartTimeRef, lastReset, lastEnd,
                        stoppedUpTo>>
    ELSE /\ UNCHANGED outCtx
         /\ StopFrom66(cw, by, n, d0)

\* lines 44-61: stop the tracks, disconnect the capture graph, close the
\* input context the ref holds now, unless closed
StopFrom44(cw, by, n, d0) ==
    /\ stream' = IF streamRef # Null
                 THEN [stream EXCEPT ![streamRef] = "stopped"] ELSE stream
    /\ streamRef' = Null
    /\ graph' = [s \in Starts |->
                   IF s \in {scriptProcessorRef, sourceNodeRef}
                   THEN "disconnected" ELSE graph[s]]
    /\ scriptProcessorRef' = Null
    /\ sourceNodeRef' = Null
    /\ IF inputAudioContextRef # Null /\ inCtx[inputAudioContextRef] # "closed"
       THEN /\ inCtx' = [inCtx EXCEPT ![inputAudioContextRef] = "closed"]
            /\ closeWait' = cw \cup {[pc |-> "in", ctx |-> inputAudioContextRef, by |-> by, n |-> n]}
            /\ did' = d0
            /\ UNCHANGED <<outCtx, nodes, audioSourcesRef, nextStartTimeRef,
                           lastReset, lastEnd, stoppedUpTo>>
       ELSE /\ UNCHANGED inCtx
            /\ StopFrom62(cw, by, n, d0)

\* what StopFrom44 and the steps after it write, besides did
stopVars == <<streamRef, stream, scriptProcessorRef, sourceNodeRef, graph,
              inCtx, outCtx, nodes, closeWait, audioSourcesRef,
              nextStartTimeRef, lastReset, lastEnd, stoppedUpTo>>

\* the continuation of a stopConversation that awaits session promise s
\* (line 39): it resumes with the session, or throws if s was rejected
StopAwaiting(s, by) ==
    [k |-> IF Rejected(s) THEN "stopThrow" ELSE "stop", s |-> s, by |-> by,
     n |-> starts]

\* lines 36-39: stopConversation up to its first await.  A call that finds a
\* session promise awaits it: it is parked on a pending promise and readied
\* as a microtask on a settled one.  Every decode in progress has now been
\* overtaken by a stop
StopCall(by) ==
    /\ status' = "idle"
    /\ decoding' = {[d EXCEPT !.late = TRUE] : d \in decoding}
    /\ UNCHANGED sessionPromiseRef
    /\ IF sessionPromiseRef = Null
       THEN /\ UNCHANGED <<mq, reactions>>
            /\ StopFrom44(closeWait, by, starts, [Nothing EXCEPT !.call = TRUE])
       ELSE /\ UNCHANGED stopVars
            /\ did' = [Nothing EXCEPT !.call = TRUE]
            /\ IF Pending(sessionPromiseRef)
               THEN /\ reactions' = [reactions EXCEPT ![sessionPromiseRef] =
                                       Append(@, StopAwaiting(sessionPromiseRef, by))]
                    /\ UNCHANGED mq
               ELSE /\ mq' = Append(mq, StopAwaiting(sessionPromiseRef, by))
                    /\ UNCHANGED reactions

textVars == <<conversation, currentInput, currentOutput, currentInputRef,
              currentOutputRef, rxIn, rxOut, turnExp>>
\* what no part of stopConversation writes, callers' own writes aside
stopRest == <<textVars, inputAudioContextRef, outputAudioContextRef, now,
              micPending, starts, msgs, frames, appVars>>

\* a task runs only between microtask checkpoints
TaskTurn == mq = << >>

\* -------------------------------------------------------- startConversation
\* how the try block of lines 80-192 ends: the connect call returns its
\* promise, or the construction of the client (line 81) or of the output
\* context (line 83) throws
StartOutcomes == {"connecting", "threw"}

\* a start that keeps the turn list of the session before
StartKeepsTurns(outcome) ==
    /\ starts < MaxStarts
    /\ starts' = starts + 1
    /\ UNCHANGED conversation
    /\ currentInput' = << >>
    /\ currentOutput' = << >>
    /\ currentInputRef' = << >>
    /\ currentOutputRef' = << >>
    /\ rxIn' = << >>
    /\ rxOut' = << >>
    /\ IF outcome = "connecting"
       THEN /\ outputAudioContextRef' = starts + 1
            /\ outCtx' = [outCtx EXCEPT ![starts + 1] = "running"]
            /\ sessionPromiseRef' = starts + 1
            /\ session' = [session EXCEPT ![starts + 1] = "connecting"]
            /\ error' = "null"
            /\ status' = "listening"
       ELSE /\ UNCHANGED <<outputAudioContextRef, outCtx, sessionPromiseRef, session>>
            /\ error' = "startFailed"
            /\ status' = "idle"
    /\ did' = [Nothing EXCEPT !.began = outcome]
    /\ UNCHANGED <<streamRef, inputAudioContextRef, scriptProcessorRef,
                   sourceNodeRef, nextStartTimeRef, audioSourcesRef, inCtx,
                   stream, graph, now, nodes, asyncVars, mounted, msgs,
                   lastEnd, lastReset, turnExp,
                   capVars, appVars>>

\* lines 71-193
StartConversation(outcome) ==
    /\ starts < MaxStarts
    /\ starts' = starts + 1
    /\ conversation' = << >>
    /\ currentInput' = << >>
    /\ currentOutput' = << >>
    /\ currentInputRef' = << >>
    /\ currentOutputRef' = << >>
    /\ rxIn' = << >>
    /\ rxOut' = << >>
    /\ IF outcome = "connecting"
       THEN /\ outputAudioContextRef' = starts + 1
            /\ outCtx' = [outCtx EXCEPT ![starts + 1] = "running"]
            /\ sessionPromiseRef' = starts + 1
            /\ session' = [session EXCEPT ![starts + 1] = "connecting"]
            /\ error' = "null"
            /\ status' = "listening"
       ELSE /\ UNCHANGED <<outputAudioContextRef, outCtx, sessionPromiseRef, session>>
            /\ error' = "startFailed"
            /\ status' = "idle"
    /\ did' = [Nothing EXCEPT !.began = outcome]
    /\ UNCHANGED <<streamRef, inputAudioContextRef, scriptProcessorRef,
                   sourceNodeRef, nextStartTimeRef, audioSourcesRef, inCtx,
                   stream, graph, now, nodes, asyncVars, mounted, msgs,
                   lastEnd, lastReset, turnExp,
                   capVars, appVars>>

\* -------------------------------------------------- handleToggleConversation
\* lines 201-207, status idle
ToggleStart(outcome) ==
    /\ TaskTurn
    /\ mounted
    /\ status = "idle"
    /\ StartConversation(outcome)

\* lines 201-207, any other status
ToggleStop ==
    /\ TaskTurn
    /\ mounted
    /\ status # "idle"
    /\ StopCall("user")
    /\ UNCHANGED <<stopRest, error, session, mounted, sent>>

\* lines 195-199: the effect's cleanup
Unmount ==
    /\ TaskTurn
    /\ mounted
    /\ mounted' = FALSE
    /\ StopCall("unmount")
    /\ UNCHANGED <<stopRest, error, session, sent>>

\* --------------------------------------------------------------- microtasks
\* the continuation at the head of the microtask queue: a stopConversation
\* resumes after line 39 with the session (lines 40-41, then 44 on), or
\* throws there because the promise it awaited was rejected; or the
\* reaction of a capture callback hands its frame to the session (line 115)
RunMicrotask ==
    /\ mq # << >>
    /\ mq' = Tail(mq)
    /\ LET h == Head(mq) IN
       IF h.k = "stop"
       THEN /\ session' = [session EXCEPT ![h.s] = Closed(@)]
            /\ sessionPromiseRef' = Null
            /\ StopFrom44(closeWait, h.by, h.n, Nothing)
            /\ UNCHANGED sent
       ELSE IF h.k = "stopThrow"
       THEN /\ did' = [Nothing EXCEPT !.stop = "threw", !.by = h.by]
            /\ UNCHANGED <<session, sessionPromiseRef, stopVars, sent>>
       ELSE /\ sent' = Append(sent, [f |-> h.f, s |-> h.s, on |-> session[h.s],
                                    early |-> h.early])
            /\ did' = Nothing
            /\ UNCHANGED <<session, sessionPromiseRef, stopVars>>
    /\ UNCHANGED <<stopRest, status, error, reactions, decoding, mounted>>

\* AudioContext.close() settles: the stopConversation awaiting it resumes
\* after line 60 (input context) or after line 63 (output context)
CloseDone(w) ==
    /\ TaskTurn
    /\ w \in closeWait
    /\ IF w.pc = "in"
       THEN /\ StopFrom62(closeWait \ {w}, w.by, w.n, Nothing)
            /\ UNCHANGED inCtx
       ELSE /\ StopFrom66(closeWait \ {w}, w.by, w.n, Nothing)
            /\ UNCHANGED <<inCtx, outCtx>>
    /\ UNCHANGED <<streamRef, stream, scriptProcessorRef, sourceNodeRef, graph>>
    /\ UNCHANGED <<stopRest, status, error, session, sessionPromiseRef, mq,
                   reactions, decoding, mounted, sent>>

\* ------------------------------------------------------ transport callbacks
\* the transport opens: the onopen callback (line 94) runs up to its await of
\* getUserMedia, and the session promise resolves, which readies every
\* continuation parked on it, in the order they were parked
OnOpen(s) ==
    /\ TaskTurn
    /\ session[s] = "connecting"
    /\ session' = [session EXCEPT ![s] = "open"]
    /\ micPending' = micPending \cup {s}
    /\ mq' = reactions[s]
    /\ reactions' = [reactions EXCEPT ![s] = << >>]
    /\ did' = Nothing
    /\ UNCHANGED <<uiVars, refVars, outCtx, inCtx, stream, graph, now, nodes,
                   closeWait, decoding, mounted, starts, msgs, lastEnd,
                   lastReset, rxIn, rxOut, turnExp,
                   capVars, appVars>>

\* the reactions parked on a promise that rejects: an awaiting
\* stopConversation will throw; the reaction of a capture callback has no
\* rejection handler and never runs
Rejection(q) ==
    LET stops == SelectSeq(q, LAMBDA r : r.k = "stop")
    IN  [i \in 1..Len(stops) |-> [stops[i] EXCEPT !.k = "stopThrow"]]

\* the connect promise rejects: every continuation parked on it will throw
ConnectReject(s) ==
    /\ TaskTurn
    /\ Pending(s)
    /\ session' = [session EXCEPT ![s] = "rejected"]
    /\ mq' = Rejection(reactions[s])
    /\ reactions' = [reactions EXCEPT ![s] = << >>]
    /\ did' = Nothing
    /\ UNCHANGED <<uiVars, refVars, outCtx, inCtx, stream, graph, now, nodes,
                   micPending, closeWait, decoding, mounted, starts, msgs,
                   lastEnd, lastReset, rxIn, rxOut, turnExp,
                   capVars, appVars>>

\* lines 176-179: the transport closed, by the remote side or after close()
OnClose(s) ==
    /\ TaskTurn
    /\ session[s] \in {"open", "closing"}
    /\ session' = [session EXCEPT ![s] = "closed"]
    /\ status' = "idle"
    /\ did' = Nothing
    /\ UNCHANGED <<conversation, currentInput, currentOutput, error, refVars,
                   outCtx, inCtx, stream, graph, now, nodes, asyncVars,
                   mounted, starts, msgs, lastEnd, lastReset, rxIn,
                   rxOut, turnExp,
                   capVars, appVars>>

\* lines 180-184: the transport failed, while connecting or once open
OnError(s) ==
    /\ TaskTurn
    /\ session[s] \in {"connecting", "open"}
    /\ session' = [session EXCEPT ![s] =
                     IF @ = "connecting" THEN "connFailed" ELSE "failed"]
    /\ error' = "conversationError"
    /\ StopCall("error")
    /\ UNCHANGED <<stopRest, mounted, sent>>

\* ------------------------------------------------------------------ onopen
\* lines 95-121 after getUserMedia resolved: the stream, a new input context
\* and the capture graph replace whatever the refs held
MicGranted(s) ==
    /\ TaskTurn
    /\ s \in micPending
    /\ micPending' = micPending \ {s}
    /\ streamRef' = s
    /\ stream' = [stream EXCEPT ![s] = "live"]
    /\ inputAudioContextRef' = s
    /\ inCtx' = [inCtx EXCEPT ![s] = "running"]
    /\ sourceNodeRef' = s
    /\ scriptProcessorRef' = s
    /\ graph' = [graph EXCEPT ![s] = "connected"]
    /\ did' = Nothing
    /\ UNCHANGED <<uiVars, sessionPromiseRef, outputAudioContextRef,
                   currentInputRef, currentOutputRef, nextStartTimeRef,
                   audioSourcesRef, session, outCtx, now, nodes, mq, reactions,
                   closeWait, decoding, mounted, starts, msgs, lastEnd,
                   lastReset, rxIn, rxOut, turnExp,
                   capVars, appVars>>

\* line 95, getUserMedia rejected: onopen throws and nothing else runs
MicDenied(s) ==
    /\ TaskTurn
    /\ s \in micPending
    /\ micPending' = micPending \ {s}
    /\ stream' = [stream EXCEPT ![s] = "denied"]
    /\ did' = Nothing
    /\ UNCHANGED <<uiVars, refVars, session, outCtx, inCtx, graph, now, nodes,
                   mq, reactions, closeWait, decoding, mounted, starts, msgs,
                   lastEnd, lastReset, rxIn, rxOut, turnExp,
                   capVars, appVars>>

\* ---------------------------------------------------------- onaudioprocess
\* line 115: the reaction that hands frame f to the session of promise p;
\* early records that p was still pending when the frame was produced
SendFrame(p, f) == [k |-> "send", s |-> p, f |-> f, early |-> Pending(p)]

\* lines 100-118: the capture processor built by onopen of start g delivers
\* a buffer.  The frame is handed to the promise the session handle holds
\* now: the reaction runs as a microtask when that promise is resolved, is
\* parked while it is pending, and never runs when it is rejected; with no
\* handle the frame is dropped
OnAudioProcess(g) ==
    /\ TaskTurn
    /\ graph[g] = "connected"
    /\ inCtx[g] = "running"
    /\ frames < MaxFrames
    /\ frames' = frames + 1
    /\ LET p == sessionPromiseRef IN
       IF p = Null \/ Rejected(p)
       THEN UNCHANGED <<mq, reactions>>
       ELSE IF Pending(p)
       THEN /\ reactions' = [reactions EXCEPT ![p] = Append(@, SendFrame(p, frames + 1))]
            /\ UNCHANGED mq
       ELSE /\ mq' = Append(mq, SendFrame(p, frames + 1))
            /\ UNCHANGED reactions
    /\ did' = Nothing
    /\ UNCHANGED <<uiVars, refVars, envVars, micPending, closeWait, decoding,
                   mounted, starts, msgs, lastEnd, lastReset, rxIn, rxOut,
                   turnExp, sent, stoppedUpTo, appVars>>

\* -------------------------------------------------------------- audioUtils
\* decode and decodeAudioData of ../utils/audioUtils, after the
\* specification (4.1): a malformed payload fails with DecodeError, any
\* other payload yields a buffer
Decodes(m) == m.audio = "ok"

\* the decode awaited at line 127 settles in a task of its own, after any
\* number of other tasks: decode work may take variable time per segment
\* and may complete after stop() (specification, 5)
DecodeSettles(d) == TaskTurn /\ d \in decoding

\* --------------------------------------------------------------- onmessage
\* an inbound message: an audio payload that decodes to a segment of some
\* duration ("ok"), one that does not decode ("bad") or none; a transcript
\* delta of each side (absent is ''); the interrupted and turnComplete flags
Message(a, d, i, o, x, c) ==
    [audio |-> a, dur |-> d, inT |-> i, outT |-> o, intr |-> x, tc |-> c]

\* a handler whose turn-complete replaces the turn list by the new turns
MessageTailReplaces(m, st, srcs, clk, nds, le, lr, rxi, rxo) ==
    LET inAfter == currentInputRef \o m.inT
        outAfter == currentOutputRef \o m.outT
    IN  /\ currentInputRef' = IF m.tc THEN << >> ELSE inAfter
        /\ currentInput' = IF m.tc THEN << >> ELSE inAfter
        /\ currentOutputRef' = IF m.tc THEN << >> ELSE outAfter
        /\ currentOutput' = IF m.tc THEN << >> ELSE outAfter
        /\ IF m.intr
           THEN /\ nodes' = StoppedNodes(nds, srcs)
                /\ audioSourcesRef' = {}
                /\ nextStartTimeRef' = 0
                /\ status' = "listening"
                /\ lastReset' = "intr"
                /\ lastEnd' = -1
           ELSE /\ nodes' = nds
                /\ audioSourcesRef' = srcs
                /\ nextStartTimeRef' = clk
                /\ status' = st
                /\ lastReset' = lr
                /\ lastEnd' = le
        /\ conversation' =
             IF m.tc
             THEN <<[role |-> "user", text |-> inAfter],
                    [role |-> "model", text |-> outAfter]>>
             ELSE conversation
        /\ rxIn' = IF m.tc THEN << >> ELSE rxi
        /\ rxOut' = IF m.tc THEN << >> ELSE rxo
        /\ turnExp' = IF m.tc THEN [in |-> rxi, out |-> rxo] ELSE turnExp

\* lines 148-174, the part of the handler after the audio branch.  st, srcs,
\* clk, nds: status, source set, clock and nodes as the audio branch left
\* them; le, lr: the end of the last segment scheduled and what reset the
\* clock since; rxi, rxo: the deltas received so far, this message's included
MessageTail(m, st, srcs, clk, nds, le, lr, rxi, rxo) ==
    LET inAfter == currentInputRef \o m.inT
        outAfter == currentOutputRef \o m.outT
    IN  /\ currentInputRef' = IF m.tc THEN << >> ELSE inAfter
        /\ currentInput' = IF m.tc THEN << >> ELSE inAfter
        /\ currentOutputRef' = IF m.tc THEN << >> ELSE outAfter
        /\ currentOutput' = IF m.tc THEN << >> ELSE outAfter
        /\ IF m.intr
           THEN /\ nodes' = StoppedNodes(nds, srcs)
                /\ audioSourcesRef' = {}
                /\ nextStartTimeRef' = 0
                /\ status' = "listening"
                /\ lastReset' = "intr"
                /\ lastEnd' = -1
           ELSE /\ nodes' = nds
                /\ audioSourcesRef' = srcs
                /\ nextStartTimeRef' = clk
                /\ status' = st
                /\ lastReset' = lr
                /\ lastEnd' = le
        /\ conversation' =
             IF m.tc
             THEN conversation \o <<[role |-> "user", text |-> inAfter],
                                    [role |-> "model", text |-> outAfter]>>
             ELSE conversation
        /\ rxIn' = IF m.tc THEN << >> ELSE rxi
        /\ rxOut' = IF m.tc THEN << >> ELSE rxo
        /\ turnExp' = IF m.tc THEN [in |-> rxi, out |-> rxo] ELSE turnExp

\* what neither branch of the handler writes
messageRest == <<error, sessionPromiseRef, streamRef, inputAudioContextRef,
                 outputAudioContextRef, scriptProcessorRef, sourceNodeRef,
                 session, outCtx, inCtx, stream, graph, now, mq, reactions,
                 micPending, closeWait, mounted, starts, capVars, appVars>>

\* the flags of message m whose handler ended in this step
Handled(m, ran) ==
    [Nothing EXCEPT !.intrMsg = m.intr, !.intr = m.intr /\ ran,
                    !.turnMsg = m.tc, !.turn = m.tc /\ ran]

\* lines 123-127 and, for a message without audio, 148-174: a message with an
\* audio payload sets status speaking and awaits the decode
OnMessage(s, m) ==
    /\ TaskTurn
    /\ session[s] = "open"
    /\ msgs < MaxMsgs
    /\ msgs' = msgs + 1
    /\ IF m.audio # "none" /\ outputAudioContextRef # Null
       THEN /\ status' = "speaking"
            /\ decoding' = decoding \cup {[id |-> msgs + 1, m |-> m, late |-> FALSE]}
            /\ rxIn' = rxIn \o m.inT
            /\ rxOut' = rxOut \o m.outT
            /\ did' = Nothing
            /\ UNCHANGED <<conversation, currentInput, currentOutput,
                           currentInputRef, currentOutputRef, nextStartTimeRef,
                           audioSourcesRef, nodes, lastEnd, lastReset, turnExp>>
       ELSE /\ MessageTail(m, status, audioSourcesRef, nextStartTimeRef, nodes,
                           lastEnd, lastReset, rxIn \o m.inT, rxOut \o m.outT)
            /\ did' = Handled(m, TRUE)
            /\ UNCHANGED decoding
    /\ UNCHANGED messageRest

\* a scheduler that ignores the real time of the context
StartTimeNoTime(clock, t) == clock

\* a scheduler that ignores the playback clock
StartTimeNoClock(clock, t) == t

\* line 130: the start time of a segment scheduled at real time t
StartTime(clock, t) == Max(clock, t)

\* lines 127-174 after the await: a failed decode throws out of the handler,
\* which ends there; otherwise the segment is scheduled on the output
\* context the ref holds now and the handler goes on to line 148
DecodeDone(d) ==
    /\ DecodeSettles(d)
    /\ decoding' = decoding \ {d}
    /\ IF ~Decodes(d.m)
       THEN /\ did' = [Handled(d.m, FALSE) EXCEPT !.late = d.late]
            /\ UNCHANGED <<uiVars, currentInputRef, currentOutputRef,
                           nextStartTimeRef, audioSourcesRef, nodes, lastEnd,
                           lastReset, rxIn, rxOut, turnExp>>
       ELSE LET c == outputAudioContextRef
                currentTime == now[c]
                start == StartTime(nextStartTimeRef, currentTime)
                end == start + d.m.dur
                source == [id |-> d.id, ctx |-> c, end |-> end, st |-> "playing"]
            IN  /\ MessageTail(d.m, status, audioSourcesRef \cup {d.id}, end,
                               IF outCtx[c] = "running"
                               THEN nodes \cup {source} ELSE nodes,
                               end, "none", rxIn, rxOut)
                /\ did' = [Handled(d.m, TRUE) EXCEPT
                             !.sched = TRUE, !.start = start, !.t = currentTime,
                             !.prevEnd = lastEnd, !.reset = lastReset,
                             !.late = d.late]
                /\ UNCHANGED error
    /\ UNCHANGED <<messageRest, msgs>>

\* lines 136-141: a source's 'ended' event, once it has played to its end or
\* after stop() was called on it
OnEnded(n) ==
    /\ TaskTurn
    /\ n \in nodes
    /\ n.st = "stopped" \/ now[n.ctx] >= n.end
    /\ nodes' = nodes \ {n}
    /\ audioSourcesRef' = audioSourcesRef \ {n.id}
    /\ status' = IF audioSourcesRef \ {n.id} = {} THEN "listening" ELSE status
    /\ did' = Nothing
    /\ UNCHANGED <<conversation, currentInput, currentOutput, error,
                   sessionPromiseRef, streamRef, inputAudioContextRef,
                   outputAudioContextRef, scriptProcessorRef, sourceNodeRef,
                   currentInputRef, currentOutputRef, nextStartTimeRef,
                   session, outCtx, inCtx, stream, graph, now, asyncVars,
                   mounted, starts, msgs, lastEnd, lastReset, rxIn,
                   rxOut, turnExp,
                   capVars, appVars>>

\* real time passes: currentTime of every running output context advances
Tick ==
    /\ TaskTurn
    /\ \E c \in Starts : outCtx[c] = "running"
    /\ \A c \in Starts : outCtx[c] = "running" => now[c] < MaxTime
    /\ now' = [c \in Starts |-> IF outCtx[c] = "running" THEN now[c] + 1 ELSE now[c]]
    /\ did' = Nothing
    /\ UNCHANGED <<uiVars, refVars, session, outCtx, inCtx, stream, graph,
                   nodes, asyncVars, mounted, starts, msgs, lastEnd, lastReset,
                   rxIn, rxOut, turnExp,
                   capVars, appVars>>

\* ==================================================================== Chat
\* what the user types, what search and thinking answer, a streamed chunk
Question == <<"q">>
Answer == <<"ans">>
Chunk == <<"c">>

ChatModes == {"standard", "fast", "thinking", "search"}
ModeFlags == {"useSearch", "useThinkingMode", "useFastMode"}

\* a toggle that leaves the other two flags as they are
ToggleKeepsOthers(c, m) == [c EXCEPT ![m] = ~c[m]]

\* toggleSearch, toggleThinkingMode, toggleFastMode: the updater of flag m
\* on the state c of a chat; enabling the flag disables the other two
Toggle(c, m) ==
    IF ~c[m]
    THEN [c EXCEPT !.useSearch = (m = "useSearch"),
                   !.useThinkingMode = (m = "useThinkingMode"),
                   !.useFastMode = (m = "useFastMode")]
    ELSE [c EXCEPT ![m] = FALSE]

\* the branch handleSendMessage takes for the flags of state c
SendMode(c) ==
    IF c.useSearch THEN "search"
    ELSE IF c.useThinkingMode THEN "thinking" ELSE "stream"

\* the flags that are on in state c
ModesOn(c) == {m \in ModeFlags : c[m]}

\* newMessages[newMessages.length - 1].text += chunkText
WithChunk(ms) ==
    IF ms = << >> THEN ms
    ELSE [ms EXCEPT ![Len(ms)] = [@ EXCEPT !.text = @ \o Chunk]]

\* prev.slice(0, -k)
DropLast(ms, k) == SubSeq(ms, 1, Len(ms) - k)

\* ------------------------------------------------------ components/Chat.tsx
\* the input box (disabled while loading)
FlatType ==
    /\ ~flatChat.isLoading
    /\ flatChat.input = << >>
    /\ flatChat.sends < MaxSends
    /\ flatChat' = [flatChat EXCEPT !.input = Question, !.did = NoChatStep]
    /\ UNCHANGED <<liveVars, convChat, defaultChatMode, codeEditor>>

\* lines 48-93: handleSendMessage up to its await
FlatSend ==
    LET c == flatChat
        userMessage == [role |-> "user", text |-> c.input]
        withUser == Append(c.messages, userMessage)
        mode == SendMode(c)
    IN  /\ c.input # << >>
        /\ ~c.isLoading
        /\ flatChat' =
             IF mode = "stream" /\ ~c.chat
             THEN [c EXCEPT !.messages = withUser, !.input = << >>,
                            !.error = "noSession", !.isLoading = FALSE,
                            !.sends = @ + 1,
                            !.did = [NoChatStep EXCEPT !.op = "noSession"]]
             ELSE [c EXCEPT !.messages =
                               IF mode = "stream"
                               THEN Append(withUser, [role |-> "model", text |-> << >>])
                               ELSE withUser,
                            !.input = << >>, !.error = "null",
                            !.isLoading = TRUE, !.sends = @ + 1,
                            !.call = [NoCall EXCEPT !.mode = mode, !.before = c.messages],
                            !.did = [NoChatStep EXCEPT !.op = "send"]]
        /\ UNCHANGED <<liveVars, convChat, defaultChatMode, codeEditor>>

\* lines 61-67, 76-78: the search or thinking request resolves
FlatResolves ==
    /\ flatChat.call.mode \in {"search", "thinking"}
    /\ flatChat' = [flatChat EXCEPT
                      !.messages = Append(@, [role |-> "model", text |-> Answer]),
                      !.isLoading = FALSE, !.call = NoCall,
                      !.did = [NoChatStep EXCEPT !.op = "done"]]
    /\ UNCHANGED <<liveVars, convChat, defaultChatMode, codeEditor>>

\* lines 95-102: the stream delivers a chunk
FlatChunk ==
    /\ flatChat.call.mode # "none"
    /\ flatChat.call.mode = "stream"
    /\ flatChat.call.chunks < MaxChunks
    /\ flatChat' = [flatChat EXCEPT
                      !.messages = WithChunk(@),
                      !.call = [@ EXCEPT !.chunks = @ + 1],
                      !.did = [NoChatStep EXCEPT !.op = "chunk"]]
    /\ UNCHANGED <<liveVars, convChat, defaultChatMode, codeEditor>>

\* lines 106-108: the stream ends
FlatStreamEnds ==
    /\ flatChat.call.mode # "none"
    /\ flatChat.call.mode = "stream"
    /\ flatChat' = [flatChat EXCEPT
                      !.isLoading = FALSE, !.call = NoCall,
                      !.did = [NoChatStep EXCEPT !.op = "done"]]
    /\ UNCHANGED <<liveVars, convChat, defaultChatMode, codeEditor>>

\* lines 68-72, 79-83, 103-108: the request rejects, or the stream throws
\* before or between chunks; the catch block of the mode reverts
FlatRejects ==
    /\ flatChat.call.mode # "none"
    /\ flatChat' = [flatChat EXCEPT
                      !.error = "sendFailed",
                      !.messages = DropLast(@, IF flatChat.call.mode = "stream"
                                               THEN 2 ELSE 1),
                      !.isLoading = FALSE, !.call = NoCall,
                      !.did = [NoChatStep EXCEPT !.op = "failed",
                                                 !.before = flatChat.call.before]]
    /\ UNCHANGED <<liveVars, convChat, defaultChatMode, codeEditor>>

\* lines 149-180: toggleSearch, toggleThinkingMode, toggleFastMode
FlatToggle(m) ==
    /\ flatChat' = [Toggle(flatChat, m) EXCEPT
                      !.did = [NoChatStep EXCEPT !.op = "toggle",
                                                 !.prev = ModesOn(flatChat)]]
    /\ UNCHANGED <<liveVars, convChat, defaultChatMode, codeEditor>>

\* ------------------------------------------------------- Chat of part_002
\* SettingsContext.tsx, lines 41-44
SetDefaultChatMode(newMode) ==
    /\ newMode # defaultChatMode
    /\ defaultChatMode' = newMode
    /\ convChat' = [convChat EXCEPT !.did = NoChatStep]
    /\ UNCHANGED <<liveVars, flatChat, codeEditor>>

\* lines 344-346 and 156-158: the flags for the default chat mode
WithDefaultMode(c) ==
    [c EXCEPT !.useSearch = (defaultChatMode = "search"),
              !.useThinkingMode = (defaultChatMode = "thinking"),
              !.useFastMode = (defaultChatMode = "fast")]

\* lines 146-160: the component mounts
ConvMount ==
    /\ ~convChat.mounted
    /\ convChat' = [WithDefaultMode(convChat) EXCEPT !.mounted = TRUE,
                                                    !.did = NoChatStep]
    /\ UNCHANGED <<liveVars, flatChat, defaultChatMode, codeEditor>>

\* lines 207-208: the messages shown
ActiveMessages(c) ==
    LET found == {i \in 1..Len(c.conversations) :
                    c.conversations[i].id = c.activeConversationId}
    IN  IF found = {} THEN <<Greeting>>
        ELSE c.conversations[CHOOSE i \in found : \A j \in found : i <= j].messages

\* prev.map(c => c.id === id ? {...c, messages: [...c.messages, message]} : c)
AppendMessage(convs, id, message) ==
    [i \in 1..Len(convs) |->
        IF convs[i].id = id
        THEN [convs[i] EXCEPT !.messages = Append(@, message)] ELSE convs[i]]

\* lines 254-256: prev.map(c => c.id === id ? {...c, messages: c.messages.slice(0, -1)} : c)
WithoutLast(convs, id) ==
    [i \in 1..Len(convs) |->
        IF convs[i].id = id
        THEN [convs[i] EXCEPT !.messages = DropLast(@, 1)] ELSE convs[i]]

\* lines 288-295
ChunkAdded(convs, id) ==
    [i \in 1..Len(convs) |->
        IF convs[i].id = id
        THEN [convs[i] EXCEPT !.messages = WithChunk(@)] ELSE convs[i]]

\* prev.filter(c => c.id !== id)
Without(convs, id) == SelectSeq(convs, LAMBDA c : c.id # id)

\* the input box (disabled while loading)
ConvType ==
    /\ convChat.mounted
    /\ ~convChat.isLoading
    /\ convChat.input = << >>
    /\ convChat.sends < MaxSends
    /\ convChat' = [convChat EXCEPT !.input = Question, !.did = NoChatStep]
    /\ UNCHANGED <<liveVars, flatChat, defaultChatMode, codeEditor>>

\* lines 217-284: handleSendMessage up to its await.  The id of a new
\* conversation is the time of the send, modelled by the number of the send
ConvSend ==
    LET c == convChat
        userMessage == [role |-> "user", text |-> c.input]
        isNewConversation == c.activeConversationId = Null
        conversationId == IF isNewConversation THEN c.sends + 1
                          ELSE c.activeConversationId
        messages == ActiveMessages(c)
        withUser ==
            IF isNewConversation
            THEN Append(c.conversations,
                        [id |-> conversationId, messages |-> <<messages[1], userMessage>>])
            ELSE AppendMessage(c.conversations, conversationId, userMessage)
        mode == SendMode(c)
    IN  /\ c.mounted
        /\ c.input # << >>
        /\ ~c.isLoading
        /\ convChat' =
             IF mode = "stream" /\ ~c.chat
             THEN [c EXCEPT !.conversations = withUser,
                            !.activeConversationId = conversationId,
                            !.input = << >>,
                            !.error = "noSession", !.isLoading = FALSE,
                            !.sends = @ + 1,
                            !.did = [NoChatStep EXCEPT !.op = "noSession"]]
             ELSE [c EXCEPT !.conversations =
                               IF mode = "stream"
                               THEN AppendMessage(withUser, conversationId,
                                                  [role |-> "model", text |-> << >>])
                               ELSE withUser,
                            !.activeConversationId = conversationId,
                            !.input = << >>, !.error = "null",
                            !.isLoading = TRUE, !.sends = @ + 1,
                            !.call = [mode |-> mode, id |-> conversationId,
                                      isNew |-> isNewConversation,
                                      before |-> messages, chunks |-> 0],
                            !.did = [NoChatStep EXCEPT !.op = "send"]]
        /\ UNCHANGED <<liveVars, flatChat, defaultChatMode, codeEditor>>

\* lines 268-270, 273-275: the search or thinking request resolves
ConvResolves ==
    /\ convChat.call.mode \in {"search", "thinking"}
    /\ convChat' = [convChat EXCEPT
                      !.conversations =
                          AppendMessage(@, convChat.call.id,
                                        [role |-> "model", text |-> Answer]),
                      !.isLoading = FALSE, !.call = NoCall,
                      !.did = [NoChatStep EXCEPT !.op = "done"]]
    /\ UNCHANGED <<liveVars, flatChat, defaultChatMode, codeEditor>>

\* lines 286-296: the stream delivers a chunk
ConvChunk ==
    /\ convChat.call.mode # "none"
    /\ convChat.call.mode = "stream"
    /\ convChat.call.chunks < MaxChunks
    /\ convChat' = [convChat EXCEPT
                      !.conversations = ChunkAdded(@, convChat.call.id),
                      !.call = [@ EXCEPT !.chunks = @ + 1],
                      !.did = [NoChatStep EXCEPT !.op = "chunk"]]
    /\ UNCHANGED <<liveVars, flatChat, defaultChatMode, codeEditor>>

\* lines 299-301: the stream ends
ConvStreamEnds ==
    /\ convChat.call.mode # "none"
    /\ convChat.call.mode = "stream"
    /\ convChat' = [convChat EXCEPT
                      !.isLoading = FALSE, !.call = NoCall,
                      !.did = [NoChatStep EXCEPT !.op = "done"]]
    /\ UNCHANGED <<liveVars, flatChat, defaultChatMode, codeEditor>>

\* lines 247-258 called from the catch blocks of lines 270, 275, 297-301:
\* the request rejects, or the stream throws before or between chunks
ConvRejects ==
    LET call == convChat.call IN
    /\ call.mode # "none"
    /\ convChat' = [convChat EXCEPT
                      !.error = "sendFailed",
                      !.conversations = IF call.isNew THEN Without(@, call.id)
                                        ELSE WithoutLast(@, call.id),
                      !.activeConversationId = IF call.isNew THEN Null ELSE @,
                      !.isLoading = FALSE, !.call = NoCall,
                      !.did = [NoChatStep EXCEPT !.op = "failed",
                                                 !.before = call.before,
                                                 !.id = call.id,
                                                 !.isNew = call.isNew]]
    /\ UNCHANGED <<liveVars, flatChat, defaultChatMode, codeEditor>>

\* lines 342-347: handleNewConversation
ConvNewConversation ==
    /\ convChat.mounted
    /\ convChat' = [WithDefaultMode(convChat) EXCEPT
                      !.activeConversationId = Null,
                      !.did = [NoChatStep EXCEPT !.op = "new",
                                                 !.prev = ModesOn(convChat)]]
    /\ UNCHANGED <<liveVars, flatChat, defaultChatMode, codeEditor>>

\* line 349: handleSelectConversation
ConvSelect(i) ==
    /\ i \in 1..Len(convChat.conversations)
    /\ convChat.conversations[i].id # convChat.activeConversationId
    /\ convChat' = [convChat EXCEPT
                      !.activeConversationId = convChat.conversations[i].id,
                      !.did = NoChatStep]
    /\ UNCHANGED <<liveVars, flatChat, defaultChatMode, codeEditor>>

\* lines 350-355: handleDeleteConversation
ConvDelete(i) ==
    /\ i \in 1..Len(convChat.conversations)
    /\ LET id == convChat.conversations[i].id IN
       convChat' = [convChat EXCEPT
                      !.conversations = Without(@, id),
                      !.activeConversationId = IF @ = id THEN Null ELSE @,
                      !.did = NoChatStep]
    /\ UNCHANGED <<liveVars, flatChat, defaultChatMode, codeEditor>>

\* lines 357-359: toggleSearch, toggleThinkingMode, toggleFastMode
ConvToggle(m) ==
    /\ convChat.mounted
    /\ convChat' = [Toggle(convChat, m) EXCEPT
                      !.did = [NoChatStep EXCEPT !.op = "toggle",
                                                 !.prev = ModesOn(convChat)]]
    /\ UNCHANGED <<liveVars, flatChat, defaultChatMode, codeEditor>>

\* ============================================================== CodeEditor
\* part_000.  The content of the editor is one of a few texts, '' included
Contents == {"", "a", "b"}
Actions == {"generate", "explain", "debug", "format"}

\* a push that sets the index one past the last entry
PushedPastEnd(e, h, i, newCode) ==
    LET newHistory == SubSeq(h, 1, i + 1)
    IN  IF newHistory[Len(newHistory)] # newCode
        THEN [e EXCEPT !.history = Append(newHistory, newCode),
                       !.historyIndex = Len(newHistory) + 1]
        ELSE e

\* lines 430-436 and 445-450: the history h cut after index i (indices
\* count from 0) and newCode pushed, unless the cut history ends with it;
\* the new index is that of the last entry
Pushed(e, h, i, newCode) ==
    LET newHistory == SubSeq(h, 1, i + 1)
    IN  IF newHistory[Len(newHistory)] # newCode
        THEN [e EXCEPT !.history = Append(newHistory, newCode),
                       !.historyIndex = Len(newHistory)]
        ELSE e

\* lines 423-438: handleCodeChange (the textarea is disabled while loading).
\* The timeout's callback closes over the history and the index of the
\* render in which the handler ran
HandleCodeChange(newCode) ==
    LET e == codeEditor IN
    /\ ~e.isLoading
    /\ newCode # e.code
    /\ e.edits < MaxEdits
    /\ codeEditor' = [e EXCEPT
                        !.code = newCode,
                        !.historyTimeoutRef =
                            [set |-> TRUE, newCode |-> newCode,
                             history |-> e.history,
                             historyIndex |-> e.historyIndex],
                        !.edits = @ + 1,
                        !.did = [NoEditorStep EXCEPT !.op = "type"]]
    /\ UNCHANGED <<liveVars, flatChat, convChat, defaultChatMode>>

\* lines 430-437: the 800 ms timeout fires
HistoryTimeout ==
    LET t == codeEditor.historyTimeoutRef IN
    /\ t.set
    /\ codeEditor' = [Pushed(codeEditor, t.history, t.historyIndex, t.newCode)
                        EXCEPT !.historyTimeoutRef = NoTimeout,
                               !.did = [NoEditorStep EXCEPT !.op = "timeout"]]
    /\ UNCHANGED <<liveVars, flatChat, convChat, defaultChatMode>>

\* lines 440-451: setCodeProgrammatically of the render whose history and
\* index are h and i
SetCodeProgrammatically(e, h, i, newCode) ==
    Pushed([e EXCEPT !.code = newCode, !.historyTimeoutRef = NoTimeout], h, i, newCode)

\* lines 453-460 (the button is disabled at index 0 and while loading)
HandleUndo ==
    LET e == codeEditor IN
    /\ ~e.isLoading
    /\ e.historyIndex > 0
    /\ codeEditor' = [e EXCEPT
                        !.historyTimeoutRef = NoTimeout,
                        !.historyIndex = e.historyIndex - 1,
                        !.code = e.history[(e.historyIndex - 1) + 1],
                        !.did = [NoEditorStep EXCEPT !.op = "undo"]]
    /\ UNCHANGED <<liveVars, flatChat, convChat, defaultChatMode>>

\* lines 462-469 (the button is disabled at the last index and while loading)
HandleRedo ==
    LET e == codeEditor IN
    /\ ~e.isLoading
    /\ e.historyIndex < Len(e.history) - 1
    /\ codeEditor' = [e EXCEPT
                        !.historyTimeoutRef = NoTimeout,
                        !.historyIndex = e.historyIndex + 1,
                        !.code = e.history[(e.historyIndex + 1) + 1],
                        !.did = [NoEditorStep EXCEPT !.op = "redo"]]
    /\ UNCHANGED <<liveVars, flatChat, convChat, defaultChatMode>>

\* lines 471-485: handleAction up to its await; the continuation closes
\* over the code, the history and the index of the render of the click
HandleAction(action) ==
    LET e == codeEditor IN
    /\ ~e.isLoading
    /\ e.edits < MaxEdits
    /\ codeEditor' =
         IF e.code = "" /\ action # "generate"
         THEN [e EXCEPT !.error = "enterCode", !.did = NoEditorStep]
         ELSE [e EXCEPT !.isLoading = TRUE, !.error = "null", !.output = "",
                        !.call = [action |-> action, code |-> e.code,
                                  history |-> e.history,
                                  historyIndex |-> e.historyIndex],
                        !.edits = @ + 1,
                        !.did = [NoEditorStep EXCEPT !.op = "invoke"]]
    /\ UNCHANGED <<liveVars, flatChat, convChat, defaultChatMode>>

\* lines 486-517: the request resolves; result is the response as
\* cleanResponse leaves it
ActionResolves(result) ==
    LET e == codeEditor
        call == e.call
        done == [e EXCEPT !.isLoading = FALSE, !.call = NoAction]
    IN  /\ call.action # "none"
        /\ codeEditor' =
             IF call.action \in {"generate", "format"}
             THEN [SetCodeProgrammatically(
                       IF call.action = "generate"
                       THEN [done EXCEPT !.output = result] ELSE done,
                       call.history, call.historyIndex, result)
                   EXCEPT !.did = [op |-> IF result # call.code
                                          THEN "replaced" ELSE "kept",
                                   held |-> call.code]]
             ELSE [done EXCEPT !.output = result,
                               !.did = [NoEditorStep EXCEPT !.op = "done"]]
        /\ UNCHANGED <<liveVars, flatChat, convChat, defaultChatMode>>

\* lines 511-517: the request rejects
ActionRejects ==
    /\ codeEditor.call.action # "none"
    /\ codeEditor' = [codeEditor EXCEPT
                        !.error = "actionFailed", !.isLoading = FALSE,
                        !.call = NoAction,
                        !.did = [NoEditorStep EXCEPT !.op = "failed"]]
    /\ UNCHANGED <<liveVars, flatChat, convChat, defaultChatMode>>

\* ---------------------------------------------------------- specifications
\* Spec: the whole life cycle, every handler, with messages that carry audio
\* and the interrupted flag
AudioMessages ==
    {Message("none", 0, << >>, << >>, TRUE, FALSE)}
    \cup {Message("ok", d, << >>, << >>, x, FALSE) : d \in Durations, x \in BOOLEAN}
    \cup {Message("bad", 0, << >>, << >>, x, FALSE) : x \in BOOLEAN}

\* messages and sessions explored over the whole life cycle
LifeMsgs == MaxMsgs - 1
LifeStarts == MaxStarts - 1

Next ==
    \/ \E o \in StartOutcomes : starts < LifeStarts /\ ToggleStart(o)
    \/ ToggleStop
    \/ Unmount
    \/ RunMicrotask
    \/ \E w \in closeWait : CloseDone(w)
    \/ \E s \in Starts : OnOpen(s)
    \/ \E s \in Starts : ConnectReject(s)
    \/ \E s \in Starts : OnClose(s)
    \/ \E s \in Starts : OnError(s)
    \/ \E s \in Starts : MicGranted(s)
    \/ \E s \in Starts : MicDenied(s)
    \/ \E s \in Starts, m \in AudioMessages : msgs < LifeMsgs /\ OnMessage(s, m)
    \/ \E d \in decoding : DecodeDone(d)
    \/ \E n \in nodes : OnEnded(n)
    \/ Tick

Spec == Init /\ [][Next]_vars

\* SpecPlay: playback.  Sessions are started, opened, stopped and closed;
\* a message carries a segment, a payload that does not decode, or an
\* interruption
PlayMessages ==
    {Message("none", 0, << >>, << >>, TRUE, FALSE),
     Message("bad", 0, << >>, << >>, FALSE, FALSE)}
    \cup {Message("ok", d, << >>, << >>, FALSE, FALSE) : d \in Durations}

\* sessions explored for playback
PlayStarts == MaxStarts - 2

NextPlay ==
    \/ starts < PlayStarts /\ ToggleStart("connecting")
    \/ ToggleStop
    \/ RunMicrotask
    \/ \E w \in closeWait : CloseDone(w)
    \/ \E s \in Starts : OnOpen(s)
    \/ \E s \in Starts : OnClose(s)
    \/ \E s \in Starts, m \in PlayMessages : OnMessage(s, m)
    \/ \E d \in decoding : DecodeDone(d)
    \/ \E n \in nodes : OnEnded(n)
    \/ Tick

SpecPlay == Init /\ [][NextPlay]_vars

\* SpecDrain: playback under the scheduling of the platform.  A ready
\* microtask runs, a close and a decode settle, a source that has played to
\* its end fires 'ended', and time passes; clicks and transport events may
\* or may not come
DrainFairness ==
    /\ WF_vars(RunMicrotask)
    /\ WF_vars(\E w \in closeWait : CloseDone(w))
    /\ WF_vars(\E d \in decoding : DecodeDone(d))
    /\ WF_vars(\E n \in nodes : OnEnded(n))
    /\ WF_vars(Tick)

SpecDrain == Init /\ [][NextPlay]_vars /\ DrainFairness

\* SpecTurns: transcripts.  One session; a message carries any combination
\* of an audio payload, a delta of each side and the turnComplete flag
TurnMessages ==
    {Message(a, 1, i, o, FALSE, c) :
        a \in {"none", "ok", "bad"}, i \in Deltas, o \in Deltas, c \in BOOLEAN}

NextTurns ==
    \/ starts < PlayStarts /\ ToggleStart("connecting")
    \/ ToggleStop
    \/ RunMicrotask
    \/ \E w \in closeWait : CloseDone(w)
    \/ \E s \in Starts : OnOpen(s)
    \/ \E s \in Starts, m \in TurnMessages : OnMessage(s, m)
    \/ \E d \in decoding : DecodeDone(d)
    \/ \E n \in nodes : OnEnded(n)
    \/ Tick

SpecTurns == Init /\ [][NextTurns]_vars

\* SpecRestart: sessions one after the other.  A start succeeds or throws;
\* sessions are opened, stopped, closed and fail; a message carries transcript
\* deltas and the turnComplete flag, and no audio
TextMessages ==
    {Message("none", 0, i, o, FALSE, c) :
        i \in {<< >>, <<"a">>}, o \in {<< >>, <<"b">>}, c \in BOOLEAN}

NextRestart ==
    \/ \E o \in StartOutcomes : starts < LifeStarts /\ ToggleStart(o)
    \/ ToggleStop
    \/ RunMicrotask
    \/ \E w \in closeWait : CloseDone(w)
    \/ \E s \in Starts : OnOpen(s)
    \/ \E s \in Starts : OnClose(s)
    \/ \E s \in Starts : OnError(s)
    \/ \E s \in Starts, m \in TextMessages : OnMessage(s, m)

SpecRestart == Init /\ [][NextRestart]_vars

\* SpecCapture: capture.  Sessions are started, opened, stopped and closed,
\* the microphone is granted and the capture processors deliver buffers
NextCapture ==
    \/ ToggleStart("connecting")
    \/ ToggleStop
    \/ RunMicrotask
    \/ \E w \in closeWait : CloseDone(w)
    \/ \E s \in Starts : OnOpen(s)
    \/ \E s \in Starts : OnClose(s)
    \/ \E s \in Starts : MicGranted(s)
    \/ \E g \in Starts : OnAudioProcess(g)

SpecCapture == Init /\ [][NextCapture]_vars

\* SpecChat: the text chat.  The application has one Chat: the steps of the
\* flat version are taken while the version of part_002 is not mounted, and
\* that version mounts in place of an unused flat one.  Messages are typed
\* and sent in every mode, requests resolve and reject, streams deliver
\* chunks, end and throw; conversations are created, selected and deleted;
\* the modes are toggled and the default mode is changed
NextChat ==
    \/ ~convChat.mounted /\ FlatType
    \/ ~convChat.mounted /\ FlatSend
    \/ FlatResolves
    \/ FlatChunk
    \/ FlatStreamEnds
    \/ FlatRejects
    \/ \E m \in ModeFlags : ~convChat.mounted /\ FlatToggle(m)
    \/ \E m \in ChatModes : SetDefaultChatMode(m)
    \/ flatChat = FlatChatInit /\ ConvMount
    \/ ConvType
    \/ ConvSend
    \/ ConvResolves
    \/ ConvChunk
    \/ ConvStreamEnds
    \/ ConvRejects
    \/ ConvNewConversation
    \/ \E i \in 1..MaxSends : ConvSelect(i)
    \/ \E i \in 1..MaxSends : ConvDelete(i)
    \/ \E m \in ModeFlags : ConvToggle(m)

SpecChat == Init /\ [][NextChat]_vars

\* SpecEditor: the code editor.  The code is edited, the history timeout
\* fires, actions are invoked, resolve and reject, edits are undone and
\* redone
NextEditor ==
    \/ \E newCode \in Contents : HandleCodeChange(newCode)
    \/ HistoryTimeout
    \/ HandleUndo
    \/ HandleRedo
    \/ \E action \in Actions : HandleAction(action)
    \/ \E result \in Contents : ActionResolves(result)
    \/ ActionRejects

SpecEditor == Init /\ [][NextEditor]_vars

\* ------------------------------------------------------------- properties
OpenTransports == {s \in Starts : session[s] = "open"}
LiveStreams == {s \in Starts : stream[s] = "live"}
ConnectedGraphs == {s \in Starts : graph[s] = "connected"}
RunningIn == {s \in Starts : inCtx[s] = "running"}
RunningOut == {s \in Starts : outCtx[s] = "running"}

\* everything stop() is to release has been released
TornDown ==
    /\ status = "idle"
    /\ \A s \in Starts : session[s] \notin {"connecting", "open"}
    /\ LiveStreams = {}
    /\ ConnectedGraphs = {}
    /\ RunningIn = {}
    /\ RunningOut = {}
    /\ audioSourcesRef = {}
    /\ nextStartTimeRef = 0

\* no continuation of a handler is ready or waits for a close
Settled == mq = << >> /\ closeWait = {}

\* C1: at most one live session at a time: in every reachable state at most
\* one transport is open, at most one microphone stream is live and at most
\* one input and one output audio context are running.
C1_OneLiveSession ==
    /\ Cardinality(OpenTransports) <= 1
    /\ Cardinality(LiveStreams) <= 1
    /\ Cardinality(RunningIn) <= 1
    /\ Cardinality(RunningOut) <= 1

\* C2: when a stop() completes, status is idle, no transport is open or
\* opening, no microphone stream is live, no capture graph is connected, no
\* audio context is running, the Active Playback Set is empty and the
\* playback clock is 0.
C2_StopTearsDown == did.stop = "returned" => TornDown

\* C3: stop() is idempotent: no call of stop() ever throws, status is idle
\* after each call, and a call made right after a stop() has completed
\* completes at once and changes nothing.
C3_StopIdempotent ==
    [][/\ did'.stop # "threw"
       /\ did'.call => status' = "idle"
       /\ did.stop = "returned" /\ did'.call =>
            /\ did'.stop = "returned"
            /\ UNCHANGED <<uiVars, refVars, envVars, asyncVars>>]_vars

\* C4: the stop() that the transport's error callback starts never throws,
\* and when it completes an error message is shown and everything stop()
\* releases has been released.
C4_ErrorTearsDown ==
    did.by = "error" =>
        /\ did.stop # "threw"
        /\ did.stop = "returned" => error # "null" /\ TornDown

\* C5: when opening the transport fails, by a throw inside start() or by the
\* rejection of the connect promise, an error message is shown and status
\* is idle.
C5_StartFailureSurfaced ==
    /\ did.began = "threw" => error # "null" /\ status = "idle"
    /\ \A s \in Starts :
         Rejected(s) /\ sessionPromiseRef = s /\ Settled =>
            error # "null" /\ status = "idle"

\* C6: when microphone access is denied during the start of a session, the
\* start is torn down: status is idle, the transport of that session is not
\* open, its output context is not running and no media stream is live.
C6_MicDeniedTearsDown ==
    \A s \in Starts :
        stream[s] = "denied" /\ sessionPromiseRef = s /\ Settled =>
            /\ status = "idle"
            /\ session[s] # "open"
            /\ outCtx[s] # "running"
            /\ LiveStreams = {}

\* C7: a decode that completes after stop() was invoked is discarded: it
\* schedules no segment and leaves status, the Active Playback Set and the
\* playback clock as they were.
C7_LateDecodeDiscarded ==
    [][did'.late =>
         /\ ~did'.sched
         /\ UNCHANGED <<status, audioSourcesRef, nextStartTimeRef>>]_vars

\* C8: playback is gapless and non-overlapping: a segment scheduled after
\* another, with no interruption and no stop in between, starts no earlier
\* than the computed end of the earlier one, and exactly at that end when
\* real time has not passed it.
C8_Gapless ==
    did.sched /\ did.prevEnd >= 0 =>
        /\ did.start >= did.prevEnd
        /\ did.t <= did.prevEnd => did.start = did.prevEnd

\* a segment is scheduled while the one before it has not finished
C8_BackToBack == did.sched /\ did.prevEnd > 0 /\ did.t < did.prevEnd

\* C9: when the handler of a message carrying the interrupted flag ends,
\* every segment has been stopped, the Active Playback Set is empty, the
\* playback clock is 0 and status is listening; and the first segment
\* scheduled after an interruption starts at the real time of the call.
C9_Interruption ==
    [][/\ did'.intrMsg =>
            /\ \A n \in nodes' : n.st # "playing"
            /\ audioSourcesRef' = {}
            /\ nextStartTimeRef' = 0
            /\ status' = "listening"
       /\ did'.sched /\ did'.reset = "intr" => did'.start = did'.t]_vars

\* C10: when the handler of a message carrying the turnComplete flag ends,
\* exactly two turns have been appended to the turn list, a user turn with
\* the input deltas received since the start or the previous turn-complete,
\* in order, then a model turn with the output deltas, and both transcript
\* buffers are empty.
C10_TurnAccumulation ==
    [][did'.turnMsg =>
         /\ conversation' = conversation \o
                <<[role |-> "user", text |-> turnExp'.in],
                  [role |-> "model", text |-> turnExp'.out]>>
         /\ currentInputRef' = << >> /\ currentInput' = << >>
         /\ currentOutputRef' = << >> /\ currentOutput' = << >>]_vars

\* a stopConversation has been called and has neither returned nor thrown
StopRunning ==
    \/ closeWait # {}
    \/ \E i \in 1..Len(mq) : mq[i].k \in {"stop", "stopThrow"}
    \/ \E s \in Starts : \E i \in 1..Len(reactions[s]) :
          reactions[s][i].k \in {"stop", "stopThrow"}

\* the handler suspended at decode d ends in this step
DecodeEnds(d) == \A e \in decoding' : e.id # d.id

\* C11: a payload that fails to decode drops only its segment: the step in
\* which the decode fails leaves the transports, the streams and the capture
\* graphs as they were, does not make status idle, and the rest of the
\* message is processed as for a message without audio: its deltas are
\* appended to the buffers and its interrupted and turnComplete flags are
\* handled.
C11_OnlySegmentDropped ==
    [][\A d \in decoding :
          DecodeEnds(d) /\ ~Decodes(d.m) =>
             /\ UNCHANGED <<session, stream, graph>>
             /\ status' # "idle" \/ status = "idle"
             /\ ~d.m.tc => /\ currentInputRef' = currentInputRef \o d.m.inT
                           /\ currentOutputRef' = currentOutputRef \o d.m.outT
             /\ d.m.tc => did'.turn
             /\ d.m.intr => did'.intr]_vars

\* C12: frames reach the send operation in the order the capture callback
\* produced them: of any two frames sent, the one sent first was produced
\* first (so that no frame is sent twice).
C12_FramesInOrder ==
    \A i, j \in 1..Len(sent) : i < j => sent[i].f < sent[j].f

\* C13: once a stop() has returned, no frame is handed to an open transport
\* that a start() preceding the call of that stop() had created.
C13_NoFrameAfterStop ==
    [][Len(sent') > Len(sent) /\ sent'[Len(sent')].on = "open" =>
          sent'[Len(sent')].s > stoppedUpTo]_vars

\* C14: no capture graph is connected while the transport of the current
\* session, the one the session handle refers to, has not opened yet.
C14_CaptureAfterOpen ==
    ConnectedGraphs # {} /\ sessionPromiseRef # Null =>
        ~Pending(sessionPromiseRef)

\* C15: every failure surfaces an error message, in the step of a failed
\* start, of a denied microphone and of a transport error, and once the
\* microtasks after a rejected connect have run; and a start() whose try
\* block does not throw leaves no message shown.
C15_OneMessagePerFailure ==
    [][/\ did'.began = "connecting" => error' = "null"
       /\ did'.began = "threw" => error' # "null"
       /\ did'.call /\ did'.by = "error" => error' # "null"
       /\ \A s \in Starts :
            stream'[s] = "denied" /\ stream[s] # "denied" => error' # "null"
       /\ \A s \in Starts :
            Rejected(s) /\ sessionPromiseRef = s /\ mq # << >> /\ mq' = << >>
                => error' # "null"]_vars

C17_ArrivalOrder ==
    [][\A d \in decoding :
          DecodeEnds(d) /\ Decodes(d.m) =>
             \A n \in nodes :
                n.ctx = outputAudioContextRef /\ n.st = "playing" => n.id < d.id]_vars

\* C18: the handler of an inbound message begins only when the handler of
\* every earlier message has ended.
C18_RunToCompletion == [][msgs' # msgs => decoding = {}]_vars

\* C19: whenever status is idle and no stop() is executing, no microphone
\* stream is live, no capture graph is connected and no transport is open.
C19_IdleHoldsNothing ==
    status = "idle" /\ ~StopRunning =>
        /\ LiveStreams = {}
        /\ ConnectedGraphs = {}
        /\ OpenTransports = {}

\* C20: once status is idle, only a start() moves it away from idle.
C20_IdleUntilStart ==
    [][status = "idle" /\ status' # "idle" => did'.began # "none"]_vars

\* C21: the playback clock decreases only in a step in which an
\* interruption is handled or a stop() returns, and then to 0; and a segment
\* that is scheduled starts no earlier than the clock value before the call
\* and no earlier than the real time of its output context at the call.
C21_ClockMonotone ==
    [][/\ nextStartTimeRef' < nextStartTimeRef =>
            /\ nextStartTimeRef' = 0
            /\ did'.intr \/ did'.stop = "returned"
       /\ did'.sched =>
            /\ did'.start >= nextStartTimeRef
            /\ did'.start >= now[outputAudioContextRef]]_vars

\* a segment has been scheduled after real time had passed the end of the
\* segment before it
C21_ScheduledPastClock == did.sched /\ did.prevEnd > 0 /\ did.t > did.prevEnd

\* C22: no frame that the capture callback produced while the transport of
\* the session it was handed to had not opened yet is ever handed to the
\* send operation of a transport.
C22_EarlyFramesDropped == \A i \in 1..Len(sent) : ~sent[i].early

\* C23: the turn list is append-only: every step leaves it unchanged, or is
\* a start() and empties it, or handles a turn-complete and appends two
\* turns at its end, the turns before them unchanged; and a step in which
\* stop() is called, by the user or by the error callback, or in which a
\* stop() resumes, leaves it unchanged.
C23_AppendOnly ==
    [][/\ \/ conversation' = conversation
          \/ did'.began # "none" /\ conversation' = << >>
          \/ /\ did'.turn
             /\ Len(conversation') = Len(conversation) + 2
             /\ SubSeq(conversation', 1, Len(conversation)) = conversation
       /\ did'.call \/ did'.stop # "none" => conversation' = conversation]_vars

\* a turn-complete has appended turns to a list that held turns already
C23_AppendedToTurns == did.turn /\ Len(conversation) > 2

\* a segment of the Active Playback Set that never finishes playing: it was
\* scheduled on a context that is not running, or it ends after the time
\* explored
NeverFinishes ==
    \E id \in audioSourcesRef :
        \A n \in nodes :
            n.id = id => n.st = "playing" /\ (outCtx[n.ctx] # "running" \/ n.end > MaxTime)

\* C24: whenever status is speaking while a transport is open, status
\* eventually is listening or idle, unless a scheduled segment never
\* finishes playing (messages are finitely many, so that eventually no
\* further audio message arrives).
C24_SpeakingDrains ==
    (status = "speaking" /\ OpenTransports # {}) ~>
        (status # "speaking" \/ NeverFinishes)

\* the segments of the Active Playback Set that are playing and unfinished
Unfinished ==
    {n \in nodes : /\ n.id \in audioSourcesRef
                   /\ n.st = "playing"
                   /\ outCtx[n.ctx] = "running"
                   /\ now[n.ctx] < n.end}

\* C25: while a transport is open and status is not idle, status is
\* speaking in every state in which a segment of the Active Playback Set is
\* playing and unfinished: no such segment plays while status is listening.
C25_SpeakingWhilePlaying ==
    OpenTransports # {} /\ status # "idle" /\ Unfinished # {} =>
        status = "speaking"

\* C26: no transport is leaked: whenever no stop() is executing, every
\* transport that a start() opened and that is opening or open is the one
\* the session handle refers to.
C26_NoTransportLeaked ==
    ~StopRunning =>
        \A s \in Starts :
            session[s] \in {"connecting", "open"} => sessionPromiseRef = s

\* the messages of conversation id in state c, << >> if it does not exist
MessagesOf(c, id) ==
    LET found == {i \in 1..Len(c.conversations) : c.conversations[i].id = id}
    IN  IF found = {} THEN << >>
        ELSE c.conversations[CHOOSE i \in found : TRUE].messages

\* C27: when a send has failed, the optimistic update is reverted: the flat
\* message list, and the message list of an existing conversation that
\* still exists, is the list shown before the send; and a conversation the
\* send had created is gone and no conversation is active.
C27_FailedSendReverted ==
    /\ flatChat.did.op = "failed" => flatChat.messages = flatChat.did.before
    /\ convChat.did.op = "failed" =>
          IF convChat.did.isNew
          THEN /\ MessagesOf(convChat, convChat.did.id) = << >>
               /\ convChat.activeConversationId = Null
          ELSE MessagesOf(convChat, convChat.did.id) \in {<< >>, convChat.did.before}

\* C28: an Undo that directly follows the completion of a generate or
\* format action that replaced the content restores the content the editor
\* held when the action was invoked.
C28_UndoRestoresInvoked ==
    [][codeEditor.did.op = "replaced" /\ codeEditor'.did.op = "undo" =>
          codeEditor'.code = codeEditor.did.held]_vars

\* C29: in the code editor 0 <= historyIndex <= history.length - 1, and
\* right after an undo or a redo the content is history[historyIndex]
\* (indices count from 0).
C29_HistoryIndex ==
    /\ 0 <= codeEditor.historyIndex
    /\ codeEditor.historyIndex <= Len(codeEditor.history) - 1
    /\ codeEditor.did.op \in {"undo", "redo"} =>
          codeEditor.code = codeEditor.history[codeEditor.historyIndex + 1]

\* a redo has just restored an entry of a history of three entries or more
C29_Redone ==
    /\ codeEditor.did.op = "redo"
    /\ Len(codeEditor.history) >= 3
    /\ codeEditor.historyIndex >= 1

\* C30: in both chats at most one of the search, thinking and fast modes is
\* enabled, after any toggles and new-conversation resets.
C30_ModesExclusive ==
    /\ Cardinality(ModesOn(flatChat)) <= 1
    /\ Cardinality(ModesOn(convChat)) <= 1

\* a toggle has just enabled a mode while another mode was enabled
C30_ModeSwitched ==
    /\ convChat.did.op = "toggle"
    /\ convChat.did.prev # {}
    /\ ModesOn(convChat) # {}
    /\ ModesOn(convChat) # convChat.did.prev

====
